---- MODULE Spec2Model ----
(***************************************************************************)
(* NeighborSearchRules (mlpack 1.0.8, neighbor_search_rules_impl.hpp):     *)
(* the base-case evaluator with its one-slot memo, ranked insertion into   *)
(* the per-query candidate lists, the point-to-node and node-to-node       *)
(* Score/Rescore rules and the five-bound CalculateBound, over small       *)
(* one-dimensional point sets and small trees.                             *)
(***************************************************************************)
EXTENDS Integers, Sequences, FiniteSets, TLC

VARIABLES
  world,               \* the data sets, k, the trees and the tree traits of this search
  distances,           \* distances(row, queryIndex): [query -> [0..k-1 -> distance]]
  neighbors,           \* neighbors(row, queryIndex): [query -> [0..k-1 -> identifier]]
  lastQueryIndex,      \* one-slot memo of BaseCase
  lastReferenceIndex,
  lastBaseCase,
  stat,                \* per node: FirstBound, SecondBound, Bound, LastDistance, LastDistanceNode
  last,                \* the last call made on the rules object and what it did
  discarded,           \* per query: the identifiers shifted out of slot k-1 so far
  calls,               \* the number of calls made by a caller that calls in any order
  drv                  \* the traversal driver's position (used by the search specification)

vars == <<world, distances, neighbors, lastQueryIndex, lastReferenceIndex,
          lastBaseCase, stat, last, discarded, calls, drv>>

-----------------------------------------------------------------------------
(* Numbers *)

\* DBL_MAX: the prune sentinel of Score/Rescore and the nearest-neighbour
\* policy's worst distance.  Every finite distance of the model is far below it.
DBL_MAX == 1000

\* size_t() - 1, returned by SortDistance when the distance is not inserted.
NoPosition == -1

\* The identifier the neighbors matrix is filled with before a search.
InvalidId == -1

\* NULL for Parent() and LastDistanceNode().
NULL == 0

\* The number of calls a caller that calls in any order makes.
MaxCalls == 3

Max(a, b) == IF a >= b THEN a ELSE b
Min(a, b) == IF a <= b THEN a ELSE b
Abs(a) == IF a >= 0 THEN a ELSE -a

RECURSIVE SetMax(_)
SetMax(S) == IF S = {} THEN 0
             ELSE LET x == CHOOSE y \in S : TRUE IN Max(x, SetMax(S \ {x}))
RECURSIVE SetMin(_)
SetMin(S) == IF S = {} THEN DBL_MAX
             ELSE LET x == CHOOSE y \in S : TRUE IN Min(x, SetMin(S \ {x}))

\* A C array: a function on 0..n-1.
Arr(seq) == [i \in 0..(Len(seq) - 1) |-> seq[i + 1]]

-----------------------------------------------------------------------------
(* The metric and the sort policy (NearestNeighborSort) *)

\* metric.Evaluate(a, b) on one-dimensional points.
Evaluate(a, b) == Abs(a - b)

IsBetter(value, ref) == value < ref
WorstDistance == DBL_MAX
BestDistance == 0
CombineBest(a, b) == Max(a - b, 0)
CombineWorst(a, b) == IF a = DBL_MAX \/ b = DBL_MAX THEN DBL_MAX ELSE a + b

\* SortDistance(list, newDistance): the rank at which a distance that beats
\* the worst entry of the list is inserted, or NoPosition.
SortDistance(list, newDistance) ==
  LET n == Cardinality(DOMAIN list) IN
  IF ~IsBetter(newDistance, list[n - 1]) THEN NoPosition
  ELSE CHOOSE i \in 0..(n - 1) :
         /\ IsBetter(newDistance, list[i])
         /\ \A j \in 0..(i - 1) : ~IsBetter(newDistance, list[j])

-----------------------------------------------------------------------------
(* The trees.  A node is a number; NULL is no node.  A tree is given by its  *)
(* Parent() and Point(i) accessors; Child(i), NumChildren(), NumPoints() and *)
(* FurthestDescendantDistance() are derived from them and from the data.     *)

Nodes(w) == DOMAIN w.parent
Parent(w, n) == w.parent[n]
NumPoints(w, n) == Cardinality(DOMAIN w.points[n])
Point(w, n, i) == w.points[n][i]
PointSet(w, n) == {w.points[n][i] : i \in DOMAIN w.points[n]}
Children(w, n) == {c \in Nodes(w) : w.parent[c] = n}

\* The coordinate of point p held by node n: query-tree nodes index the query
\* set, reference-tree nodes the reference set.
Coord(w, n, p) == IF n \in w.queryNodes THEN w.querySet[p] ELSE w.referenceSet[p]

RECURSIVE DescendantPoints(_, _)
DescendantPoints(w, n) ==
  PointSet(w, n) \cup UNION {DescendantPoints(w, c) : c \in Children(w, n)}

RECURSIVE Subtree(_, _)
Subtree(w, n) == {n} \cup UNION {Subtree(w, c) : c \in Children(w, n)}

\* The bound of a node of a space tree: the interval spanned by its descendants.
BoundLo(w, n) == SetMin({Coord(w, n, p) : p \in DescendantPoints(w, n)})
BoundHi(w, n) == SetMax({Coord(w, n, p) : p \in DescendantPoints(w, n)})

\* FurthestDescendantDistance(): the largest distance from the first point to
\* a descendant point when the first point is the centroid, and half the
\* diameter of the bound otherwise.
FurthestDescendantDistanceOf(w, n) ==
  IF w.FirstPointIsCentroid
  THEN SetMax({Evaluate(Coord(w, n, Point(w, n, 0)), Coord(w, n, p)) :
                 p \in DescendantPoints(w, n)})
  ELSE (BoundHi(w, n) - BoundLo(w, n)) \div 2

\* A search: the two point sets (the same set when same), k, the tree traits,
\* the trees, and each node's derived geometry.
World(same, k, centroid, selfChildren, querySet, referenceSet, parent, points, queryNodes, queryRoot, referenceRoot) ==
  LET w0 == [same |-> same, k |-> k,
             FirstPointIsCentroid |-> centroid, HasSelfChildren |-> selfChildren,
             querySet |-> Arr(querySet), referenceSet |-> Arr(referenceSet),
             parent |-> parent, points |-> [n \in DOMAIN points |-> Arr(points[n])],
             queryNodes |-> queryNodes,
             queryRoot |-> queryRoot, referenceRoot |-> referenceRoot]
      ns == 1..Len(parent)
  IN [same |-> w0.same, k |-> w0.k,
      FirstPointIsCentroid |-> w0.FirstPointIsCentroid,
      HasSelfChildren |-> w0.HasSelfChildren,
      querySet |-> w0.querySet, referenceSet |-> w0.referenceSet,
      parent |-> w0.parent, points |-> w0.points,
      queryNodes |-> w0.queryNodes,
      referenceNodes |-> IF same THEN ns ELSE ns \ queryNodes,
      queryRoot |-> w0.queryRoot, referenceRoot |-> w0.referenceRoot,
      fdd |-> [n \in ns |-> FurthestDescendantDistanceOf(w0, n)],
      lo |-> [n \in ns |-> BoundLo(w0, n)],
      hi |-> [n \in ns |-> BoundHi(w0, n)]]

FurthestDescendantDistance(w, n) == w.fdd[n]

\* Binary space tree over one set of three points searched against itself,
\* k = 1: an inner node over a one-point leaf and a two-point leaf.
KdSame ==
  World(TRUE, 1, FALSE, FALSE, <<0, 2, 6>>, <<0, 2, 6>>,
        <<NULL, 1, 1>>, << <<>>, <<0>>, <<1, 2>> >>, {1, 2, 3}, 1, 1)

\* Binary space trees over two query points and three reference points, k = 2.
KdTwoSets ==
  World(FALSE, 2, FALSE, FALSE, <<2, 8>>, <<2, 4, 8>>,
        <<NULL, 1, 1, NULL, 4, 4>>,
        << <<>>, <<0, 1>>, <<2>>, <<>>, <<0>>, <<1>> >>, {4, 5, 6}, 4, 1)

\* Cover tree over one set of three points searched against itself, k = 1:
\* every node holds one point, and node 2 is the self-child of the root.
CoverSame ==
  World(TRUE, 1, TRUE, TRUE, <<0, 2, 6>>, <<0, 2, 6>>,
        <<NULL, 1, 1, 1>>, << <<0>>, <<0>>, <<1>>, <<2>> >>, {1, 2, 3, 4}, 1, 1)

\* Cover trees over two query points and two reference points, k = 2.
CoverTwoSets ==
  World(FALSE, 2, TRUE, TRUE, <<2, 8>>, <<0, 6>>,
        <<NULL, 1, 1, NULL, 4, 4>>,
        << <<0>>, <<0>>, <<1>>, <<0>>, <<0>>, <<1>> >>, {4, 5, 6}, 4, 1)

\* A single reference point and a single query point, k = 3.
OnePoint ==
  World(FALSE, 3, FALSE, FALSE, <<2>>, <<0>>,
        <<NULL, NULL>>, << <<0>>, <<0>> >>, {2}, 2, 1)

Worlds == {KdSame, KdTwoSets, CoverSame, CoverTwoSets, OnePoint}

\* Binary space tree over one set of four points searched against itself,
\* k = 1: the root over an inner node with two one-point leaves and a
\* two-point leaf.
KdDeep ==
  World(TRUE, 1, FALSE, FALSE, <<0, 1, 8, 9>>, <<0, 1, 8, 9>>,
        <<NULL, 1, 1, 2, 2>>, << <<>>, <<>>, <<2, 3>>, <<0>>, <<1>> >>,
        {1, 2, 3, 4, 5}, 1, 1)

\* Cover trees over two query points and four reference points, k = 2.  The
\* reference root (point 0) has its self-child 2 and the children 3 (point 1)
\* and 4 (point 3); node 3 has its self-child 5 and the child 6 (point 2).
CoverDeep ==
  World(FALSE, 2, TRUE, TRUE, <<2, 3>>, <<10, 0, 7, 20>>,
        <<NULL, 1, 1, 1, 3, 3, NULL, 7, 7>>,
        << <<0>>, <<0>>, <<1>>, <<3>>, <<1>>, <<2>>, <<0>>, <<0>>, <<1>> >>,
        {7, 8, 9}, 7, 1)

\* One query point that coincides with reference point 0, two reference
\* points at distance 1 from it and one far away, k = 2; the sets are
\* different objects.
Coincident ==
  World(FALSE, 2, FALSE, FALSE, <<5>>, <<5, 6, 4, 12>>,
        <<NULL, 1, 1, NULL>>, << <<>>, <<0, 1>>, <<2, 3>>, <<0>> >>, {4}, 4, 1)

\* A tree whose first point is the centroid and that has no self-children,
\* over three reference points: the root holds point 0 and has a leaf for
\* each of the other two; two query points in one node; k = 1.
CentroidNoSelf ==
  World(FALSE, 1, TRUE, FALSE, <<3, 9>>, <<4, 0, 8>>,
        <<NULL, 1, 1, NULL>>, << <<0>>, <<1>>, <<2>>, <<0, 1>> >>, {4}, 4, 1)

\* The trees whose first point is the centroid.
CentroidWorlds == {CoverSame, CoverTwoSets, CentroidNoSelf}

\* The searches a traversal is run on.
SearchWorlds == Worlds \cup {KdDeep, CoverDeep}

QueryIndices(w) == DOMAIN w.querySet
ReferenceIndices(w) == DOMAIN w.referenceSet

-----------------------------------------------------------------------------
(* The rules object.  Each method is an operator from the state S of the     *)
(* object before the call to the state after it; S.ret is the value          *)
(* returned, S.evals and S.inserts count the metric evaluations and ranked   *)
(* insertions of the call, S.pos is the rank SortDistance gave, S.shifted    *)
(* holds what the call shifted out of slot k-1, S.base is the base case a    *)
(* Score used and S.cached whether it came from a node's cache, and          *)
(* S.nullRead says whether the call read through a NULL node.  S.b1, S.b2    *)
(* and S.b3 are bounds (1), (2) and (3) of the last CalculateBound, and       *)
(* S.error says whether the call ended in an exception.                      *)

\* InsertNeighbor writing the new entry into the last row instead of row pos.
InsertNeighborAtEnd(S, queryIndex, pos, neighbor, distance) ==
  LET n_rows == Cardinality(DOMAIN S.distances[queryIndex])
      Moved(col, new) ==
        [i \in DOMAIN col |->
           IF i = n_rows - 1 THEN new
           ELSE IF pos < n_rows - 1 /\ i > pos THEN col[i - 1]
           ELSE col[i]]
  IN [S EXCEPT !.distances[queryIndex] = Moved(@, distance),
               !.neighbors[queryIndex] = Moved(@, neighbor)]

\* InsertNeighbor without the memmove of the neighbors matrix.
InsertNeighborDistancesOnly(S, queryIndex, pos, neighbor, distance) ==
  LET n_rows == Cardinality(DOMAIN S.distances[queryIndex])
      Moved(col, new) ==
        [i \in DOMAIN col |->
           IF i = pos THEN new
           ELSE IF pos < n_rows - 1 /\ i > pos THEN col[i - 1]
           ELSE col[i]]
  IN [S EXCEPT !.distances[queryIndex] = Moved(@, distance),
               !.neighbors[queryIndex][pos] = neighbor]

\* InsertNeighbor without any memmove: row pos is overwritten.
InsertNeighborNoShift(S, queryIndex, pos, neighbor, distance) ==
  [S EXCEPT !.distances[queryIndex][pos] = distance,
            !.neighbors[queryIndex][pos] = neighbor]

\* InsertNeighbor without the memmove of the distances matrix.
InsertNeighborNeighborsOnly(S, queryIndex, pos, neighbor, distance) ==
  LET n_rows == Cardinality(DOMAIN S.distances[queryIndex])
      Moved(col, new) ==
        [i \in DOMAIN col |->
           IF i = pos THEN new
           ELSE IF pos < n_rows - 1 /\ i > pos THEN col[i - 1]
           ELSE col[i]]
  IN [S EXCEPT !.distances[queryIndex][pos] = distance,
               !.neighbors[queryIndex] = Moved(@, neighbor)]

\* InsertNeighbor whose memmove goes the other way: rows 1..pos move up by one.
InsertNeighborShiftsUp(S, queryIndex, pos, neighbor, distance) ==
  LET n_rows == Cardinality(DOMAIN S.distances[queryIndex])
      Moved(col, new) ==
        [i \in DOMAIN col |->
           IF i = pos THEN new
           ELSE IF i < pos THEN col[i + 1]
           ELSE col[i]]
  IN [S EXCEPT !.distances[queryIndex] = Moved(@, distance),
               !.neighbors[queryIndex] = Moved(@, neighbor)]

\* InsertNeighbor(queryIndex, pos, neighbor, distance): shift rows pos..k-2 of
\* the query's column down by one in both matrices, then write row pos.
InsertNeighbor(S, queryIndex, pos, neighbor, distance) ==
  LET n_rows == Cardinality(DOMAIN S.distances[queryIndex])
      Moved(col, new) ==
        [i \in DOMAIN col |->
           IF i = pos THEN new
           ELSE IF pos < n_rows - 1 /\ i > pos THEN col[i - 1]
           ELSE col[i]]
  IN [S EXCEPT !.distances[queryIndex] = Moved(@, distance),
               !.neighbors[queryIndex] = Moved(@, neighbor)]

\* The builds of the matrix library: with its bounds checks, element access
\* throws on an index outside the matrix; without them (ARMA_NO_DEBUG, the
\* release build) the access is unchecked.
Builds == {"checked", "unchecked"}

\* InsertNeighbor with pos >= k.  No row is shifted (pos < k - 1 is false) and
\* distances(pos, queryIndex), neighbors(pos, queryIndex) are written.  The
\* checked build throws at the first write.  The unchecked build writes the
\* element pos + queryIndex * k of the column-major storage: a row of a later
\* query's column, or memory behind the matrix, which no list shows.
InsertNeighborOutOfRange(S, queryIndex, pos, neighbor, distance, build) ==
  LET n_rows == Cardinality(DOMAIN S.distances[queryIndex])
      col == queryIndex + (pos \div n_rows)
      row == pos % n_rows
  IN IF build = "checked" THEN [S EXCEPT !.error = TRUE]
     ELSE IF col \in DOMAIN S.distances
     THEN [S EXCEPT !.distances[col][row] = distance,
                    !.neighbors[col][row] = neighbor]
     ELSE S

\* The body of BaseCase that overwrites the last row with a distance that did
\* not qualify for insertion.
BaseCaseComputeKeepsLatest(w, S, queryIndex, referenceIndex) ==
  LET distance == Evaluate(w.querySet[queryIndex], w.referenceSet[referenceIndex])
      queryDist == S.distances[queryIndex]
      sorted == SortDistance(queryDist, distance)
      insertPosition == IF sorted = NoPosition THEN w.k - 1 ELSE sorted
      S1 == [InsertNeighbor(S, queryIndex, insertPosition, referenceIndex, distance)
               EXCEPT !.inserts = @ + 1,
                      !.shifted = @ \cup
                        {<<queryIndex, S.neighbors[queryIndex][w.k - 1]>>}]
  IN [S1 EXCEPT !.lastQueryIndex = queryIndex,
                !.lastReferenceIndex = referenceIndex,
                !.lastBaseCase = distance,
                !.evals = @ + 1,
                !.pos = insertPosition,
                !.ret = distance]

\* The body of BaseCase after its two early returns.
BaseCaseCompute(w, S, queryIndex, referenceIndex) ==
  LET distance == Evaluate(w.querySet[queryIndex], w.referenceSet[referenceIndex])
      queryDist == S.distances[queryIndex]
      insertPosition == SortDistance(queryDist, distance)
      S1 == IF insertPosition # NoPosition
            THEN [InsertNeighbor(S, queryIndex, insertPosition, referenceIndex, distance)
                    EXCEPT !.inserts = @ + 1,
                           !.shifted = @ \cup
                             {<<queryIndex, S.neighbors[queryIndex][w.k - 1]>>}]
            ELSE S
  IN [S1 EXCEPT !.lastQueryIndex = queryIndex,
                !.lastReferenceIndex = referenceIndex,
                !.lastBaseCase = distance,
                !.evals = @ + 1,
                !.pos = insertPosition,
                !.ret = distance]

\* BaseCase without the test for the same point of the same set.
BaseCaseNoElision(w, S, queryIndex, referenceIndex) ==
  IF S.lastQueryIndex = queryIndex /\ S.lastReferenceIndex = referenceIndex
  THEN [S EXCEPT !.ret = S.lastBaseCase]
  ELSE BaseCaseCompute(w, S, queryIndex, referenceIndex)

\* BaseCase without the test of the memo.
BaseCaseNoMemo(w, S, queryIndex, referenceIndex) ==
  IF w.same /\ queryIndex = referenceIndex
  THEN [S EXCEPT !.ret = 0]
  ELSE BaseCaseCompute(w, S, queryIndex, referenceIndex)

\* BaseCase that takes equal indices for the same point whatever the sets are.
BaseCaseElideEqualIndices(w, S, queryIndex, referenceIndex) ==
  IF queryIndex = referenceIndex
  THEN [S EXCEPT !.ret = 0]
  ELSE IF S.lastQueryIndex = queryIndex /\ S.lastReferenceIndex = referenceIndex
  THEN [S EXCEPT !.ret = S.lastBaseCase]
  ELSE BaseCaseCompute(w, S, queryIndex, referenceIndex)

\* BaseCase that records the same point of the same set in the memo.
BaseCaseElisionRecords(w, S, queryIndex, referenceIndex) ==
  IF w.same /\ queryIndex = referenceIndex
  THEN [S EXCEPT !.ret = 0, !.lastQueryIndex = queryIndex,
                 !.lastReferenceIndex = referenceIndex, !.lastBaseCase = 0]
  ELSE IF S.lastQueryIndex = queryIndex /\ S.lastReferenceIndex = referenceIndex
  THEN [S EXCEPT !.ret = S.lastBaseCase]
  ELSE BaseCaseCompute(w, S, queryIndex, referenceIndex)

\* BaseCase(queryIndex, referenceIndex).
BaseCase(w, S, queryIndex, referenceIndex) ==
  IF w.same /\ queryIndex = referenceIndex
  THEN [S EXCEPT !.ret = 0]
  ELSE IF S.lastQueryIndex = queryIndex /\ S.lastReferenceIndex = referenceIndex
  THEN [S EXCEPT !.ret = S.lastBaseCase]
  ELSE BaseCaseCompute(w, S, queryIndex, referenceIndex)

\* SortPolicy::BestPointToNodeDistance and BestNodeToNodeDistance: the minimum
\* distance from a point, or from a node's bound, to the bound of the node.
BestPointToNodeDistance(w, x, node) ==
  IF x < w.lo[node] THEN w.lo[node] - x
  ELSE IF x > w.hi[node] THEN x - w.hi[node] ELSE 0

BestNodeToNodeDistance(w, queryNode, referenceNode) ==
  IF w.hi[queryNode] < w.lo[referenceNode] THEN w.lo[referenceNode] - w.hi[queryNode]
  ELSE IF w.hi[referenceNode] < w.lo[queryNode] THEN w.lo[queryNode] - w.hi[referenceNode]
  ELSE 0

\* Score(queryIndex, referenceNode) that compares against the worst candidate
\* distance it found on entry.
ScorePointStaleWorst(w, S, queryIndex, referenceNode, junk) ==
  LET parent == Parent(w, referenceNode)
      reuse == /\ parent # NULL
               /\ Point(w, referenceNode, 0) = Point(w, parent, 0)
      S1 == IF w.FirstPointIsCentroid /\ w.HasSelfChildren /\ ~reuse
            THEN BaseCase(w, S, queryIndex, Point(w, referenceNode, 0))
            ELSE S
      baseCase == IF ~w.HasSelfChildren THEN junk
                  ELSE IF reuse THEN S.stat[parent].lastDistance
                  ELSE S1.ret
      S2 == IF w.FirstPointIsCentroid /\ w.HasSelfChildren
            THEN [S1 EXCEPT !.stat[referenceNode].lastDistance = baseCase]
            ELSE S1
      distance == IF w.FirstPointIsCentroid
                  THEN CombineBest(baseCase, FurthestDescendantDistance(w, referenceNode))
                  ELSE BestPointToNodeDistance(w, w.querySet[queryIndex], referenceNode)
      bestDistance == S.distances[queryIndex][w.k - 1]
  IN [S2 EXCEPT !.ret = IF IsBetter(distance, bestDistance) THEN distance ELSE DBL_MAX,
                !.base = baseCase]

\* Score(queryIndex, referenceNode) that recomputes the base case of a
\* self-child.
ScorePointRecomputes(w, S, queryIndex, referenceNode, junk) ==
  LET S1 == IF w.FirstPointIsCentroid /\ w.HasSelfChildren
            THEN BaseCase(w, S, queryIndex, Point(w, referenceNode, 0))
            ELSE S
      baseCase == IF ~w.HasSelfChildren THEN junk ELSE S1.ret
      S2 == IF w.FirstPointIsCentroid /\ w.HasSelfChildren
            THEN [S1 EXCEPT !.stat[referenceNode].lastDistance = baseCase]
            ELSE S1
      distance == IF w.FirstPointIsCentroid
                  THEN CombineBest(baseCase, FurthestDescendantDistance(w, referenceNode))
                  ELSE BestPointToNodeDistance(w, w.querySet[queryIndex], referenceNode)
      bestDistance == S2.distances[queryIndex][w.k - 1]
  IN [S2 EXCEPT !.ret = IF IsBetter(distance, bestDistance) THEN distance ELSE DBL_MAX,
                !.base = baseCase]

\* Score(queryIndex, referenceNode).  junk is what an uninitialized local holds.
ScorePoint(w, S, queryIndex, referenceNode, junk) ==
  LET parent == Parent(w, referenceNode)
      reuse == /\ parent # NULL
               /\ Point(w, referenceNode, 0) = Point(w, parent, 0)
      S1 == IF w.FirstPointIsCentroid /\ w.HasSelfChildren /\ ~reuse
            THEN BaseCase(w, S, queryIndex, Point(w, referenceNode, 0))
            ELSE S
      baseCase == IF ~w.HasSelfChildren THEN junk
                  ELSE IF reuse THEN S.stat[parent].lastDistance
                  ELSE S1.ret
      S2 == IF w.FirstPointIsCentroid /\ w.HasSelfChildren
            THEN [S1 EXCEPT !.stat[referenceNode].lastDistance = baseCase]
            ELSE S1
      distance == IF w.FirstPointIsCentroid
                  THEN CombineBest(baseCase, FurthestDescendantDistance(w, referenceNode))
                  ELSE BestPointToNodeDistance(w, w.querySet[queryIndex], referenceNode)
      bestDistance == S2.distances[queryIndex][w.k - 1]
  IN [S2 EXCEPT !.ret = IF IsBetter(distance, bestDistance) THEN distance ELSE DBL_MAX,
                !.base = baseCase]

\* Rescore(queryIndex, ...) that answers with the threshold it compared
\* against, whatever the old score was.
RescorePointThreshold(w, S, queryIndex, referenceNode, oldScore) ==
  LET bestDistance == S.distances[queryIndex][w.k - 1]
  IN [S EXCEPT !.ret = IF IsBetter(oldScore, bestDistance) THEN oldScore ELSE bestDistance]

\* Rescore(queryIndex, referenceNode, oldScore).
RescorePoint(w, S, queryIndex, referenceNode, oldScore) ==
  IF oldScore = DBL_MAX THEN [S EXCEPT !.ret = oldScore]
  ELSE LET bestDistance == S.distances[queryIndex][w.k - 1]
       IN [S EXCEPT !.ret = IF IsBetter(oldScore, bestDistance) THEN oldScore ELSE DBL_MAX]

\* What a loop that starts from init and keeps every visited value that
\* IsBetter than what it holds ends with, and the same for the worst.
BestOf(values, init) ==
  CHOOSE x \in values \cup {init} : \A y \in values \cup {init} : ~IsBetter(y, x)
WorstOf(values, init) ==
  CHOOSE x \in values \cup {init} : \A y \in values \cup {init} : ~IsBetter(x, y)

\* CalculateBound whose bound (2) takes the candidate distance away from the
\* node's diameter instead of adding the two.
CalculateBoundSubtract(w, S, queryNode) ==
  LET pointDistances ==
        {S.distances[p][w.k - 1] : p \in PointSet(w, queryNode)}
      bestPointDistance == BestOf(pointDistances, WorstDistance)
      worstPointDistance == WorstOf(pointDistances, BestDistance)
      queryMaxDescendantDistance == FurthestDescendantDistance(w, queryNode)
      worstChildBound ==
        WorstOf({S.stat[c].firstBound : c \in Children(w, queryNode)}, BestDistance)
      bestAdjustedChildBound ==
        BestOf({CombineWorst(S.stat[c].secondBound,
                  2 * (queryMaxDescendantDistance - FurthestDescendantDistance(w, c))) :
                  c \in Children(w, queryNode)}, WorstDistance)
      firstBound == IF IsBetter(worstPointDistance, worstChildBound)
                    THEN worstChildBound ELSE worstPointDistance
      secondBound == Max(2 * queryMaxDescendantDistance - bestPointDistance, 0)
      parent == Parent(w, queryNode)
      fourthBound == IF parent # NULL THEN S.stat[parent].firstBound ELSE WorstDistance
      fifthBound == IF parent # NULL THEN S.stat[parent].secondBound ELSE WorstDistance
      interA == IF IsBetter(firstBound, fourthBound) THEN firstBound ELSE fourthBound
      interB == IF IsBetter(bestAdjustedChildBound, secondBound)
                THEN bestAdjustedChildBound ELSE secondBound
      interC == IF IsBetter(interB, fifthBound) THEN interB ELSE fifthBound
      bound == IF IsBetter(interA, interC) THEN interA ELSE interC
  IN [S EXCEPT !.stat[queryNode].firstBound = interA,
               !.stat[queryNode].secondBound = interC,
               !.stat[queryNode].bound = bound,
               !.ret = bound,
               !.b1 = firstBound, !.b2 = secondBound, !.b3 = bestAdjustedChildBound]

\* CalculateBound that leaves the parent's bounds (4) and (5) out.
CalculateBoundNoParent(w, S, queryNode) ==
  LET pointDistances ==
        {S.distances[p][w.k - 1] : p \in PointSet(w, queryNode)}
      bestPointDistance == BestOf(pointDistances, WorstDistance)
      worstPointDistance == WorstOf(pointDistances, BestDistance)
      queryMaxDescendantDistance == FurthestDescendantDistance(w, queryNode)
      worstChildBound ==
        WorstOf({S.stat[c].firstBound : c \in Children(w, queryNode)}, BestDistance)
      bestAdjustedChildBound ==
        BestOf({CombineWorst(S.stat[c].secondBound,
                  2 * (queryMaxDescendantDistance - FurthestDescendantDistance(w, c))) :
                  c \in Children(w, queryNode)}, WorstDistance)
      firstBound == IF IsBetter(worstPointDistance, worstChildBound)
                    THEN worstChildBound ELSE worstPointDistance
      secondBound == CombineWorst(bestPointDistance, 2 * queryMaxDescendantDistance)
      parent == Parent(w, queryNode)
      fourthBound == WorstDistance
      fifthBound == WorstDistance
      interA == IF IsBetter(firstBound, fourthBound) THEN firstBound ELSE fourthBound
      interB == IF IsBetter(bestAdjustedChildBound, secondBound)
                THEN bestAdjustedChildBound ELSE secondBound
      interC == IF IsBetter(interB, fifthBound) THEN interB ELSE fifthBound
      bound == IF IsBetter(interA, interC) THEN interA ELSE interC
  IN [S EXCEPT !.stat[queryNode].firstBound = interA,
               !.stat[queryNode].secondBound = interC,
               !.stat[queryNode].bound = bound,
               !.ret = bound,
               !.b1 = firstBound, !.b2 = secondBound, !.b3 = bestAdjustedChildBound]

\* CalculateBound whose bound (1) takes the children's bound instead of their
\* firstBound.
CalculateBoundChildBound(w, S, queryNode) ==
  LET pointDistances ==
        {S.distances[p][w.k - 1] : p \in PointSet(w, queryNode)}
      bestPointDistance == BestOf(pointDistances, WorstDistance)
      worstPointDistance == WorstOf(pointDistances, BestDistance)
      queryMaxDescendantDistance == FurthestDescendantDistance(w, queryNode)
      worstChildBound ==
        WorstOf({S.stat[c].bound : c \in Children(w, queryNode)}, BestDistance)
      bestAdjustedChildBound ==
        BestOf({CombineWorst(S.stat[c].secondBound,
                  2 * (queryMaxDescendantDistance - FurthestDescendantDistance(w, c))) :
                  c \in Children(w, queryNode)}, WorstDistance)
      firstBound == IF IsBetter(worstPointDistance, worstChildBound)
                    THEN worstChildBound ELSE worstPointDistance
      secondBound == CombineWorst(bestPointDistance, 2 * queryMaxDescendantDistance)
      parent == Parent(w, queryNode)
      fourthBound == IF parent # NULL THEN S.stat[parent].firstBound ELSE WorstDistance
      fifthBound == IF parent # NULL THEN S.stat[parent].secondBound ELSE WorstDistance
      interA == IF IsBetter(firstBound, fourthBound) THEN firstBound ELSE fourthBound
      interB == IF IsBetter(bestAdjustedChildBound, secondBound)
                THEN bestAdjustedChildBound ELSE secondBound
      interC == IF IsBetter(interB, fifthBound) THEN interB ELSE fifthBound
      bound == IF IsBetter(interA, interC) THEN interA ELSE interC
  IN [S EXCEPT !.stat[queryNode].firstBound = interA,
               !.stat[queryNode].secondBound = interC,
               !.stat[queryNode].bound = bound,
               !.ret = bound,
               !.b1 = firstBound, !.b2 = secondBound, !.b3 = bestAdjustedChildBound]

\* CalculateBound(queryNode).
CalculateBound(w, S, queryNode) ==
  LET pointDistances ==
        {S.distances[p][w.k - 1] : p \in PointSet(w, queryNode)}
      bestPointDistance == BestOf(pointDistances, WorstDistance)
      worstPointDistance == WorstOf(pointDistances, BestDistance)
      queryMaxDescendantDistance == FurthestDescendantDistance(w, queryNode)
      worstChildBound ==
        WorstOf({S.stat[c].firstBound : c \in Children(w, queryNode)}, BestDistance)
      bestAdjustedChildBound ==
        BestOf({CombineWorst(S.stat[c].secondBound,
                  2 * (queryMaxDescendantDistance - FurthestDescendantDistance(w, c))) :
                  c \in Children(w, queryNode)}, WorstDistance)
      firstBound == IF IsBetter(worstPointDistance, worstChildBound)
                    THEN worstChildBound ELSE worstPointDistance
      secondBound == CombineWorst(bestPointDistance, 2 * queryMaxDescendantDistance)
      parent == Parent(w, queryNode)
      fourthBound == IF parent # NULL THEN S.stat[parent].firstBound ELSE WorstDistance
      fifthBound == IF parent # NULL THEN S.stat[parent].secondBound ELSE WorstDistance
      interA == IF IsBetter(firstBound, fourthBound) THEN firstBound ELSE fourthBound
      interB == IF IsBetter(bestAdjustedChildBound, secondBound)
                THEN bestAdjustedChildBound ELSE secondBound
      interC == IF IsBetter(interB, fifthBound) THEN interB ELSE fifthBound
      bound == IF IsBetter(interA, interC) THEN interA ELSE interC
  IN [S EXCEPT !.stat[queryNode].firstBound = interA,
               !.stat[queryNode].secondBound = interC,
               !.stat[queryNode].bound = bound,
               !.ret = bound,
               !.b1 = firstBound, !.b2 = secondBound, !.b3 = bestAdjustedChildBound]


\* Score(queryNode, referenceNode) that caches the base case on the query
\* node only.
ScoreNodeCachesQueryOnly(w, S, queryNode, referenceNode, junk) ==
  LET self == w.FirstPointIsCentroid /\ w.HasSelfChildren
      lastRef == S.stat[queryNode].lastDistanceNode
      lastQuery == S.stat[referenceNode].lastDistanceNode
      qParent == Parent(w, queryNode)
      rParent == Parent(w, referenceNode)
      hit1 == /\ self /\ lastRef # NULL
              /\ Point(w, referenceNode, 0) = Point(w, lastRef, 0)
      hit2 == /\ self /\ lastQuery # NULL
              /\ Point(w, queryNode, 0) = Point(w, lastQuery, 0)
      qSelfChild == /\ self /\ qParent # NULL
                    /\ Point(w, qParent, 0) = Point(w, queryNode, 0)
      rSelfChild == /\ self /\ rParent # NULL
                    /\ Point(w, rParent, 0) = Point(w, referenceNode, 0)
      qParentRef == S.stat[qParent].lastDistanceNode
      rParentRef == S.stat[rParent].lastDistanceNode
      hit3 == /\ qSelfChild
              /\ IF qParentRef = NULL THEN junk.cmpQ
                 ELSE Point(w, qParentRef, 0) = Point(w, referenceNode, 0)
      hit4 == /\ rSelfChild
              /\ IF rParentRef = NULL THEN junk.cmpR
                 ELSE Point(w, rParentRef, 0) = Point(w, queryNode, 0)
      alreadyDone == hit1 \/ hit2 \/ hit3 \/ hit4
      cached == IF hit4 THEN S.stat[rParent].lastDistance
                ELSE IF hit3 THEN S.stat[qParent].lastDistance
                ELSE IF hit2 THEN S.stat[referenceNode].lastDistance
                ELSE S.stat[queryNode].lastDistance
      S1 == IF ~w.FirstPointIsCentroid THEN S
            ELSE IF ~alreadyDone
            THEN BaseCase(w, S, Point(w, queryNode, 0), Point(w, referenceNode, 0))
            ELSE [S EXCEPT !.lastQueryIndex = Point(w, queryNode, 0),
                           !.lastReferenceIndex = Point(w, referenceNode, 0),
                           !.lastBaseCase = cached]
      baseCase == IF alreadyDone THEN cached ELSE S1.ret
      distance ==
        IF w.FirstPointIsCentroid
        THEN CombineBest(baseCase, FurthestDescendantDistance(w, queryNode)
                                   + FurthestDescendantDistance(w, referenceNode))
        ELSE BestNodeToNodeDistance(w, queryNode, referenceNode)
      S2 == IF w.FirstPointIsCentroid
            THEN [S1 EXCEPT !.stat[queryNode].lastDistanceNode = referenceNode,
                            !.stat[queryNode].lastDistance = baseCase]
            ELSE S1
      S3 == CalculateBound(w, S2, queryNode)
      bestDistance == S3.ret
  IN [S3 EXCEPT !.ret = IF IsBetter(distance, bestDistance) THEN distance ELSE DBL_MAX,
                !.base = IF w.FirstPointIsCentroid THEN baseCase ELSE 0,
                !.cached = alreadyDone,
                !.nullRead = \/ (qSelfChild /\ qParentRef = NULL)
                             \/ (rSelfChild /\ rParentRef = NULL)]

\* Score(queryNode, referenceNode) that writes the two nodes' caches on every
\* kind of tree.
ScoreNodeAlwaysCaches(w, S, queryNode, referenceNode, junk) ==
  LET self == w.FirstPointIsCentroid /\ w.HasSelfChildren
      lastRef == S.stat[queryNode].lastDistanceNode
      lastQuery == S.stat[referenceNode].lastDistanceNode
      qParent == Parent(w, queryNode)
      rParent == Parent(w, referenceNode)
      hit1 == /\ self /\ lastRef # NULL
              /\ Point(w, referenceNode, 0) = Point(w, lastRef, 0)
      hit2 == /\ self /\ lastQuery # NULL
              /\ Point(w, queryNode, 0) = Point(w, lastQuery, 0)
      qSelfChild == /\ self /\ qParent # NULL
                    /\ Point(w, qParent, 0) = Point(w, queryNode, 0)
      rSelfChild == /\ self /\ rParent # NULL
                    /\ Point(w, rParent, 0) = Point(w, referenceNode, 0)
      qParentRef == S.stat[qParent].lastDistanceNode
      rParentRef == S.stat[rParent].lastDistanceNode
      hit3 == /\ qSelfChild
              /\ IF qParentRef = NULL THEN junk.cmpQ
                 ELSE Point(w, qParentRef, 0) = Point(w, referenceNode, 0)
      hit4 == /\ rSelfChild
              /\ IF rParentRef = NULL THEN junk.cmpR
                 ELSE Point(w, rParentRef, 0) = Point(w, queryNode, 0)
      alreadyDone == hit1 \/ hit2 \/ hit3 \/ hit4
      cached == IF hit4 THEN S.stat[rParent].lastDistance
                ELSE IF hit3 THEN S.stat[qParent].lastDistance
                ELSE IF hit2 THEN S.stat[referenceNode].lastDistance
                ELSE S.stat[queryNode].lastDistance
      S1 == IF ~w.FirstPointIsCentroid THEN S
            ELSE IF ~alreadyDone
            THEN BaseCase(w, S, Point(w, queryNode, 0), Point(w, referenceNode, 0))
            ELSE [S EXCEPT !.lastQueryIndex = Point(w, queryNode, 0),
                           !.lastReferenceIndex = Point(w, referenceNode, 0),
                           !.lastBaseCase = cached]
      baseCase == IF alreadyDone THEN cached ELSE S1.ret
      distance ==
        IF w.FirstPointIsCentroid
        THEN CombineBest(baseCase, FurthestDescendantDistance(w, queryNode)
                                   + FurthestDescendantDistance(w, referenceNode))
        ELSE BestNodeToNodeDistance(w, queryNode, referenceNode)
      S2 == IF TRUE
            THEN [S1 EXCEPT !.stat[queryNode].lastDistanceNode = referenceNode,
                            !.stat[queryNode].lastDistance = baseCase,
                            !.stat[referenceNode].lastDistanceNode = queryNode,
                            !.stat[referenceNode].lastDistance = baseCase]
            ELSE S1
      S3 == CalculateBound(w, S2, queryNode)
      bestDistance == S3.ret
  IN [S3 EXCEPT !.ret = IF IsBetter(distance, bestDistance) THEN distance ELSE DBL_MAX,
                !.base = IF w.FirstPointIsCentroid THEN baseCase ELSE 0,
                !.cached = alreadyDone,
                !.nullRead = \/ (qSelfChild /\ qParentRef = NULL)
                             \/ (rSelfChild /\ rParentRef = NULL)]

\* Score(queryNode, referenceNode).  junk.cmpQ and junk.cmpR are what the two
\* comparisons that read Point(0) through a NULL LastDistanceNode() yield.
ScoreNode(w, S, queryNode, referenceNode, junk) ==
  LET self == w.FirstPointIsCentroid /\ w.HasSelfChildren
      lastRef == S.stat[queryNode].lastDistanceNode
      lastQuery == S.stat[referenceNode].lastDistanceNode
      qParent == Parent(w, queryNode)
      rParent == Parent(w, referenceNode)
      hit1 == /\ self /\ lastRef # NULL
              /\ Point(w, referenceNode, 0) = Point(w, lastRef, 0)
      hit2 == /\ self /\ lastQuery # NULL
              /\ Point(w, queryNode, 0) = Point(w, lastQuery, 0)
      qSelfChild == /\ self /\ qParent # NULL
                    /\ Point(w, qParent, 0) = Point(w, queryNode, 0)
      rSelfChild == /\ self /\ rParent # NULL
                    /\ Point(w, rParent, 0) = Point(w, referenceNode, 0)
      qParentRef == S.stat[qParent].lastDistanceNode
      rParentRef == S.stat[rParent].lastDistanceNode
      hit3 == /\ qSelfChild
              /\ IF qParentRef = NULL THEN junk.cmpQ
                 ELSE Point(w, qParentRef, 0) = Point(w, referenceNode, 0)
      hit4 == /\ rSelfChild
              /\ IF rParentRef = NULL THEN junk.cmpR
                 ELSE Point(w, rParentRef, 0) = Point(w, queryNode, 0)
      alreadyDone == hit1 \/ hit2 \/ hit3 \/ hit4
      cached == IF hit4 THEN S.stat[rParent].lastDistance
                ELSE IF hit3 THEN S.stat[qParent].lastDistance
                ELSE IF hit2 THEN S.stat[referenceNode].lastDistance
                ELSE S.stat[queryNode].lastDistance
      S1 == IF ~w.FirstPointIsCentroid THEN S
            ELSE IF ~alreadyDone
            THEN BaseCase(w, S, Point(w, queryNode, 0), Point(w, referenceNode, 0))
            ELSE [S EXCEPT !.lastQueryIndex = Point(w, queryNode, 0),
                           !.lastReferenceIndex = Point(w, referenceNode, 0),
                           !.lastBaseCase = cached]
      baseCase == IF alreadyDone THEN cached ELSE S1.ret
      distance ==
        IF w.FirstPointIsCentroid
        THEN CombineBest(baseCase, FurthestDescendantDistance(w, queryNode)
                                   + FurthestDescendantDistance(w, referenceNode))
        ELSE BestNodeToNodeDistance(w, queryNode, referenceNode)
      S2 == IF w.FirstPointIsCentroid
            THEN [S1 EXCEPT !.stat[queryNode].lastDistanceNode = referenceNode,
                            !.stat[queryNode].lastDistance = baseCase,
                            !.stat[referenceNode].lastDistanceNode = queryNode,
                            !.stat[referenceNode].lastDistance = baseCase]
            ELSE S1
      S3 == CalculateBound(w, S2, queryNode)
      bestDistance == S3.ret
  IN [S3 EXCEPT !.ret = IF IsBetter(distance, bestDistance) THEN distance ELSE DBL_MAX,
                !.base = IF w.FirstPointIsCentroid THEN baseCase ELSE 0,
                !.cached = alreadyDone,
                !.nullRead = \/ (qSelfChild /\ qParentRef = NULL)
                             \/ (rSelfChild /\ rParentRef = NULL)]

\* Rescore(queryNode, ...) that compares with the bound the node has cached,
\* without calculating it again.
RescoreNodeStaleBound(w, S, queryNode, referenceNode, oldScore) ==
  IF oldScore = DBL_MAX THEN [S EXCEPT !.ret = oldScore]
  ELSE LET bestDistance == S.stat[queryNode].bound
       IN [S EXCEPT !.ret = IF IsBetter(oldScore, bestDistance) THEN oldScore ELSE DBL_MAX]

\* Rescore(queryNode, referenceNode, oldScore).
RescoreNode(w, S, queryNode, referenceNode, oldScore) ==
  IF oldScore = DBL_MAX THEN [S EXCEPT !.ret = oldScore]
  ELSE LET S1 == CalculateBound(w, S, queryNode)
           bestDistance == S1.ret
       IN [S1 EXCEPT !.ret = IF IsBetter(oldScore, bestDistance) THEN oldScore ELSE DBL_MAX]

-----------------------------------------------------------------------------
(* The state machine: the rules object of one search, and its callers. *)

\* What an uninitialized double may hold.
JunkDistances == {0, 3}

\* The scores a caller may hand back to Rescore.
Scores(w) ==
  {DBL_MAX} \cup {Evaluate(w.querySet[q], w.referenceSet[r]) :
                    q \in QueryIndices(w), r \in ReferenceIndices(w)}

\* NeighborSearchStat(): the statistic a node is built with.
InitStat ==
  [firstBound |-> WorstDistance, secondBound |-> WorstDistance, bound |-> WorstDistance,
   lastDistance |-> 0, lastDistanceNode |-> NULL]

NoCall ==
  [op |-> "none", a |-> 0, b |-> 0, old |-> 0, ret |-> 0, evals |-> 0, inserts |-> 0,
   nullRead |-> FALSE, base |-> 0, cached |-> FALSE, pos |-> NoPosition,
   error |-> FALSE, b1 |-> 0, b2 |-> 0, b3 |-> 0]

NoDriver == [mode |-> "none"]

\* The constructor, with the matrices as the search fills them beforehand.
InitRules(w) ==
  /\ world = w
  /\ distances = [q \in QueryIndices(w) |-> [i \in 0..(w.k - 1) |-> WorstDistance]]
  /\ neighbors = [q \in QueryIndices(w) |-> [i \in 0..(w.k - 1) |-> InvalidId]]
  /\ lastQueryIndex = Cardinality(QueryIndices(w))
  /\ lastReferenceIndex = Cardinality(ReferenceIndices(w))
  /\ lastBaseCase \in JunkDistances
  /\ stat = [n \in Nodes(w) |-> InitStat]
  /\ last = NoCall
  /\ discarded = {}
  /\ calls = 0

Init ==
  /\ \E w \in Worlds : InitRules(w)
  /\ drv = NoDriver

\* The object as a call finds it.
Cur ==
  [distances |-> distances, neighbors |-> neighbors,
   lastQueryIndex |-> lastQueryIndex, lastReferenceIndex |-> lastReferenceIndex,
   lastBaseCase |-> lastBaseCase, stat |-> stat,
   ret |-> 0, evals |-> 0, inserts |-> 0, shifted |-> {},
   nullRead |-> FALSE, base |-> 0, cached |-> FALSE, pos |-> NoPosition,
   error |-> FALSE, b1 |-> 0, b2 |-> 0, b3 |-> 0]

\* The object as the call op(a, b[, old]) leaves it.
Becomes(S, op, a, b, old) ==
  /\ distances' = S.distances
  /\ neighbors' = S.neighbors
  /\ lastQueryIndex' = S.lastQueryIndex
  /\ lastReferenceIndex' = S.lastReferenceIndex
  /\ lastBaseCase' = S.lastBaseCase
  /\ stat' = S.stat
  /\ last' = [op |-> op, a |-> a, b |-> b, old |-> old, ret |-> S.ret,
              evals |-> S.evals, inserts |-> S.inserts, nullRead |-> S.nullRead,
              base |-> S.base, cached |-> S.cached, pos |-> S.pos,
              error |-> S.error, b1 |-> S.b1, b2 |-> S.b2, b3 |-> S.b3]
  /\ discarded' = discarded \cup {e \in S.shifted : e[2] # InvalidId}
  /\ UNCHANGED world

CallBaseCase ==
  \E q \in QueryIndices(world), r \in ReferenceIndices(world) :
    Becomes(BaseCase(world, Cur, q, r), "BaseCase", q, r, 0)

CallScorePoint ==
  \E q \in QueryIndices(world), n \in world.referenceNodes,
     junk \in IF world.FirstPointIsCentroid /\ ~world.HasSelfChildren
              THEN JunkDistances ELSE {0} :
    Becomes(ScorePoint(world, Cur, q, n, junk), "ScorePoint", q, n, 0)

\* Rescore ignores its referenceNode argument.
CallRescorePoint ==
  \E q \in QueryIndices(world), s \in Scores(world) :
    Becomes(RescorePoint(world, Cur, q, world.referenceRoot, s),
            "RescorePoint", q, world.referenceRoot, s)

\* The outcomes of the comparisons of Score(queryNode, referenceNode) that
\* read through a NULL pointer, where the call makes them.
Junk(w, S, qn, rn) ==
  LET nullAt(n) == /\ w.FirstPointIsCentroid /\ w.HasSelfChildren
                   /\ Parent(w, n) # NULL
                   /\ Point(w, Parent(w, n), 0) = Point(w, n, 0)
                   /\ S.stat[Parent(w, n)].lastDistanceNode = NULL
  IN [cmpQ : IF nullAt(qn) THEN BOOLEAN ELSE {FALSE},
      cmpR : IF nullAt(rn) THEN BOOLEAN ELSE {FALSE}]

CallScoreNode ==
  \E qn \in world.queryNodes, rn \in world.referenceNodes :
    \E junk \in Junk(world, Cur, qn, rn) :
      Becomes(ScoreNode(world, Cur, qn, rn, junk), "ScoreNode", qn, rn, 0)

CallRescoreNode ==
  \E qn \in world.queryNodes, s \in Scores(world) :
    Becomes(RescoreNode(world, Cur, qn, world.referenceRoot, s),
            "RescoreNode", qn, world.referenceRoot, s)

\* A caller that makes up to MaxCalls calls, in any order.
Counted == calls < MaxCalls /\ calls' = calls + 1 /\ UNCHANGED drv

AnyBaseCase == Counted /\ CallBaseCase
AnyScorePoint == Counted /\ CallScorePoint
AnyRescorePoint == Counted /\ CallRescorePoint
AnyScoreNode == Counted /\ CallScoreNode
AnyRescoreNode == Counted /\ CallRescoreNode

Next ==
  \/ AnyBaseCase
  \/ AnyScorePoint
  \/ AnyRescorePoint
  \/ AnyScoreNode
  \/ AnyRescoreNode

Spec == Init /\ [][Next]_vars

\* A caller that only evaluates base cases, any number of them in any order.
NextBase ==
  /\ CallBaseCase
  /\ UNCHANGED <<calls, drv>>

SpecBase == Init /\ [][NextBase]_vars

\* A caller that evaluates the base case of every pair once, in any order.
AllPairs(w) == QueryIndices(w) \X ReferenceIndices(w)

InitOnce ==
  /\ \E w \in Worlds \cup {Coincident} : InitRules(w)
  /\ drv = [mode |-> "once", done |-> {}]

CallBaseCaseOnce ==
  \E pair \in AllPairs(world) \ drv.done :
    /\ Becomes(BaseCase(world, Cur, pair[1], pair[2]), "BaseCase", pair[1], pair[2], 0)
    /\ drv' = [drv EXCEPT !.done = @ \cup {pair}]
    /\ UNCHANGED calls

NextOnce == CallBaseCaseOnce

SpecOnce == InitOnce /\ [][NextOnce]_vars

\* A caller of the single-tree methods on a centroid tree: up to MaxCalls
\* calls of BaseCase, Score(queryIndex, .) and Rescore(queryIndex, .).
InitSingle ==
  /\ \E w \in CentroidWorlds : InitRules(w)
  /\ drv = NoDriver

NextSingle ==
  \/ AnyBaseCase
  \/ AnyScorePoint
  \/ AnyRescorePoint

SpecSingle == InitSingle /\ [][NextSingle]_vars

\* A caller that makes up to MaxCalls calls of Score(queryNode, referenceNode)
\* on a centroid tree with self-children, in any order.
InitDual ==
  /\ \E w \in {CoverSame, CoverTwoSets} : InitRules(w)
  /\ drv = NoDriver

NextDual == AnyScoreNode

SpecDual == InitDual /\ [][NextDual]_vars

\* The trees whose bounds are followed over longer runs: a binary space tree
\* with a two-point leaf and a cover tree with a self-child.
BoundWorlds == {KdSame, CoverSame}

MaxBoundCalls == 5

InitBound ==
  /\ \E w \in BoundWorlds : InitRules(w)
  /\ drv = NoDriver

\* CalculateBound applied to any query node.
CallCalculateBound ==
  \E qn \in world.queryNodes :
    Becomes(CalculateBound(world, Cur, qn), "CalculateBound", qn, NULL, 0)

CountedBound == calls < MaxBoundCalls /\ calls' = calls + 1 /\ UNCHANGED drv

BoundBaseCase == CountedBound /\ CallBaseCase
AnyCalculateBound == CountedBound /\ CallCalculateBound

\* Up to MaxBoundCalls calls of BaseCase, which fills the candidate lists, and
\* of CalculateBound, which is the only writer of the bounds, in any order.
NextBound ==
  \/ BoundBaseCase
  \/ AnyCalculateBound

SpecBound == InitBound /\ [][NextBound]_vars

\* A caller that remembers every Rescore call that answered with the prune
\* sentinel: the overload, the query point or node, and the score handed in.
InitPrune ==
  /\ \E w \in Worlds : InitRules(w)
  /\ drv = [mode |-> "prune", pruned |-> {}]

Remembered ==
  /\ calls' = calls + 1
  /\ drv' = [drv EXCEPT !.pruned =
               IF last'.op \in {"RescorePoint", "RescoreNode"} /\ last'.ret = DBL_MAX
               THEN @ \cup {[op |-> last'.op, a |-> last'.a, old |-> last'.old]}
               ELSE @]

PruneBaseCase == calls < MaxCalls /\ CallBaseCase /\ Remembered
PruneScorePoint == calls < MaxCalls /\ CallScorePoint /\ Remembered
PruneRescorePoint == calls < MaxCalls /\ CallRescorePoint /\ Remembered
PruneScoreNode == calls < MaxCalls /\ CallScoreNode /\ Remembered
PruneRescoreNode == calls < MaxCalls /\ CallRescoreNode /\ Remembered

NextPrune ==
  \/ PruneBaseCase
  \/ PruneScorePoint
  \/ PruneRescorePoint
  \/ PruneScoreNode
  \/ PruneRescoreNode

SpecPrune == InitPrune /\ [][NextPrune]_vars

\* A dual-tree caller on trees whose first point is the centroid, which calls
\* Score(queryNode, referenceNode) and BaseCase in any order.
InitScoreBase ==
  /\ \E w \in CentroidWorlds : InitRules(w)
  /\ drv = NoDriver

NextScoreBase ==
  \/ AnyScoreNode
  \/ AnyBaseCase

SpecScoreBase == InitScoreBase /\ [][NextScoreBase]_vars

\* InsertNeighbor called with any rank in range, any identifier and distance.
InsertDistances == {0, 2, 4}

CallInsertNeighbor ==
  \E q \in QueryIndices(world), pos \in 0..(world.k - 1),
     r \in ReferenceIndices(world), d \in InsertDistances :
    Becomes([InsertNeighbor(Cur, q, pos, r, d) EXCEPT !.pos = pos, !.base = d],
            "InsertNeighbor", q, r, 0)

NextInsert ==
  /\ Counted
  /\ CallInsertNeighbor

SpecInsert == Init /\ [][NextInsert]_vars

\* InsertNeighbor called with any rank from 0 to MaxPos, in either build.
MaxPos == 3

CallInsertNeighborAnywhere ==
  \E q \in QueryIndices(world), pos \in 0..MaxPos,
     r \in ReferenceIndices(world), d \in InsertDistances, build \in Builds :
    LET S == IF pos < world.k THEN InsertNeighbor(Cur, q, pos, r, d)
             ELSE InsertNeighborOutOfRange(Cur, q, pos, r, d, build)
    IN Becomes([S EXCEPT !.pos = pos, !.base = d], "InsertNeighbor", q, r, 0)

NextInsertAnywhere ==
  /\ Counted
  /\ CallInsertNeighborAnywhere

SpecInsertAnywhere == Init /\ [][NextInsertAnywhere]_vars

-----------------------------------------------------------------------------
(* The traversals.  A traversal keeps in drv.pending the combinations it has  *)
(* scored and not yet descended, each with its score, and in drv.todo the     *)
(* calls it is about to make.  It scores a combination and, unless the score  *)
(* is DBL_MAX, calls BaseCase on the point pairs of the combination at once   *)
(* and keeps the combination.  It descends a kept combination, in any order,  *)
(* by handing its score to Rescore and, unless that answers DBL_MAX, scoring  *)
(* the combinations of the children.                                          *)

RECURSIVE Ascending(_)
Ascending(S) ==
  IF S = {} THEN <<>> ELSE <<SetMin(S)>> \o Ascending(S \ {SetMin(S)})

\* The points a node holds, in the order of Point(i).
PointSeq(w, n) == [i \in 1..NumPoints(w, n) |-> Point(w, n, i - 1)]

\* The calls of one kind on each pair of as and bs.
Cross(kind, as, bs) ==
  [i \in 1..(Len(as) * Len(bs)) |->
     [kind |-> kind, q |-> as[((i - 1) \div Len(bs)) + 1],
                     r |-> bs[((i - 1) % Len(bs)) + 1]]]

\* BaseCase on each pair of a sequence of (query, reference) pairs.
RECURSIVE BaseCases(_, _, _)
BaseCases(w, S, pairs) ==
  IF pairs = <<>> THEN S
  ELSE BaseCases(w, BaseCase(w, S, Head(pairs).q, Head(pairs).r), Tail(pairs))

\* In a traversal every node is scored after its parent, so no comparison of
\* Score reads through NULL, and no tree of a traversal leaves baseCase unset.
NoJunk == [cmpQ |-> FALSE, cmpR |-> FALSE]

\* The combinations below a combination of two nodes: a node without children
\* stays while the other one descends.
ChildCombinations(w, qn, rn) ==
  LET qc == Ascending(Children(w, qn))
      rc == Ascending(Children(w, rn))
  IN IF qc = <<>> /\ rc = <<>> THEN <<>>
     ELSE IF qc = <<>> THEN Cross("score", <<qn>>, rc)
     ELSE IF rc = <<>> THEN Cross("score", qc, <<rn>>)
     ELSE Cross("score", qc, rc)

InitSearch ==
  /\ \E w \in SearchWorlds : InitRules(w)
  /\ \E m \in {"single", "dual"} :
       drv = [mode |-> m, query |-> 0, started |-> FALSE, pending |-> {},
              todo |-> <<>>]

Idle == drv.todo = <<>> /\ drv.pending = {}

\* The single-tree traversal takes the query points one after the other and
\* starts each at the root of the reference tree.
SingleStart ==
  /\ drv.mode = "single"
  /\ Idle
  /\ drv.query < Cardinality(QueryIndices(world))
  /\ drv' = [drv EXCEPT !.query = @ + 1, !.started = TRUE,
                        !.todo = <<[kind |-> "score", q |-> drv.query,
                                    r |-> world.referenceRoot]>>]
  /\ UNCHANGED <<world, distances, neighbors, lastQueryIndex, lastReferenceIndex,
                 lastBaseCase, stat, last, discarded, calls>>

\* The dual-tree traversal starts at the two roots.
DualStart ==
  /\ drv.mode = "dual"
  /\ Idle
  /\ ~drv.started
  /\ drv' = [drv EXCEPT !.started = TRUE,
                        !.todo = <<[kind |-> "score", q |-> world.queryRoot,
                                    r |-> world.referenceRoot]>>]
  /\ UNCHANGED <<world, distances, neighbors, lastQueryIndex, lastReferenceIndex,
                 lastBaseCase, stat, last, discarded, calls>>

\* Score the next combination; keep it and queue its base cases unless the
\* score is DBL_MAX.
Kept(c, S, pairs) ==
  IF S.ret = DBL_MAX THEN drv' = [drv EXCEPT !.todo = Tail(@)]
  ELSE drv' = [drv EXCEPT !.todo = pairs \o Tail(@),
                          !.pending = @ \cup {[q |-> c.q, r |-> c.r, score |-> S.ret]}]

SingleScore ==
  /\ drv.mode = "single"
  /\ drv.todo # <<>>
  /\ Head(drv.todo).kind = "score"
  /\ LET c == Head(drv.todo)
         S == ScorePoint(world, Cur, c.q, c.r, 0)
     IN /\ Becomes(S, "ScorePoint", c.q, c.r, 0)
        /\ Kept(c, S, Cross("base", <<c.q>>, PointSeq(world, c.r)))
  /\ UNCHANGED calls

DualScore ==
  /\ drv.mode = "dual"
  /\ drv.todo # <<>>
  /\ Head(drv.todo).kind = "score"
  /\ LET c == Head(drv.todo)
         S == ScoreNode(world, Cur, c.q, c.r, NoJunk)
     IN /\ Becomes(S, "ScoreNode", c.q, c.r, 0)
        /\ Kept(c, S, Cross("base", PointSeq(world, c.q), PointSeq(world, c.r)))
  /\ UNCHANGED calls

\* The next base case.
SearchBaseCase ==
  /\ drv.todo # <<>>
  /\ Head(drv.todo).kind = "base"
  /\ LET c == Head(drv.todo)
     IN Becomes(BaseCase(world, Cur, c.q, c.r), "BaseCase", c.q, c.r, 0)
  /\ drv' = [drv EXCEPT !.todo = Tail(@)]
  /\ UNCHANGED calls

\* Descend any kept combination.
Descend(f, S, combos) ==
  drv' = [drv EXCEPT !.pending = @ \ {f},
                     !.todo = IF S.ret = DBL_MAX THEN <<>> ELSE combos]

SingleVisit ==
  /\ drv.mode = "single"
  /\ drv.todo = <<>>
  /\ \E f \in drv.pending :
       LET S == RescorePoint(world, Cur, f.q, f.r, f.score)
       IN /\ Becomes(S, "RescorePoint", f.q, f.r, f.score)
          /\ Descend(f, S, Cross("score", <<f.q>>, Ascending(Children(world, f.r))))
  /\ UNCHANGED calls

DualVisit ==
  /\ drv.mode = "dual"
  /\ drv.todo = <<>>
  /\ \E f \in drv.pending :
       LET S == RescoreNode(world, Cur, f.q, f.r, f.score)
       IN /\ Becomes(S, "RescoreNode", f.q, f.r, f.score)
          /\ Descend(f, S, ChildCombinations(world, f.q, f.r))
  /\ UNCHANGED calls

NextSearch ==
  \/ SingleStart
  \/ DualStart
  \/ SingleScore
  \/ DualScore
  \/ SearchBaseCase
  \/ SingleVisit
  \/ DualVisit

SpecSearch == InitSearch /\ [][NextSearch]_vars

\* The search is complete.
Finished ==
  /\ drv.mode \in {"single", "dual"}
  /\ drv.started
  /\ Idle
  /\ drv.mode = "single" => drv.query = Cardinality(QueryIndices(world))

\* The candidate lists after BaseCase on every (query, reference) pair.
BruteForce(w) ==
  LET fresh == [distances |-> [q \in QueryIndices(w) |-> [i \in 0..(w.k - 1) |-> WorstDistance]],
                neighbors |-> [q \in QueryIndices(w) |-> [i \in 0..(w.k - 1) |-> InvalidId]],
                lastQueryIndex |-> Cardinality(QueryIndices(w)),
                lastReferenceIndex |-> Cardinality(ReferenceIndices(w)),
                lastBaseCase |-> 0, stat |-> [n \in Nodes(w) |-> InitStat],
                ret |-> 0, evals |-> 0, inserts |-> 0, shifted |-> {},
                nullRead |-> FALSE, base |-> 0, cached |-> FALSE, pos |-> NoPosition,
   error |-> FALSE, b1 |-> 0, b2 |-> 0, b3 |-> 0]
  IN BaseCases(w, fresh, Cross("base", Ascending(QueryIndices(w)),
                                  Ascending(ReferenceIndices(w))))

-----------------------------------------------------------------------------
(* The claims *)

Valid(id) == id # InvalidId
Slots == 0..(world.k - 1)
TrueDistance(q, r) ==
  IF world.same /\ q = r THEN 0
  ELSE Evaluate(world.querySet[q], world.referenceSet[r])

\* C1: when a single-tree or dual-tree search is complete, every query point's
\* k candidate distances are the k best distances that BaseCase on every
\* (query, reference) pair without pruning gives.
C1_SearchIsExact ==
  Finished => \A q \in QueryIndices(world) :
                distances[q] = BruteForce(world).distances[q]

\* No traversal makes Score read through a NULL node.
SearchReadsNoNull == last.nullRead = FALSE

\* C2: in every reachable state each query point's candidate distances are
\* sorted by the policy's ordering, best first and worst in slot k-1, whether
\* the insertions came from direct BaseCase calls or from inside Score.
C2_ListsSorted ==
  \A q \in QueryIndices(world) : \A i \in Slots \ {world.k - 1} :
    ~IsBetter(distances[q][i + 1], distances[q][i])

\* C2 witness: a Score call has just inserted ahead of an earlier candidate.
C2_Witness ==
  /\ last.op \in {"ScorePoint", "ScoreNode"}
  /\ last.inserts = 1
  /\ last.pos = 0
  /\ \E q \in QueryIndices(world) :
       /\ world.k >= 2
       /\ Valid(neighbors[q][0]) /\ Valid(neighbors[q][1])
       /\ IsBetter(distances[q][0], distances[q][1])

\* C3: when the query set is the reference set, no query point has its own
\* identifier in any slot of its candidate list.
C3_NoSelfMatch ==
  world.same =>
    \A q \in QueryIndices(world) : \A i \in Slots : neighbors[q][i] # q

\* C3 witness: BaseCase(i, i) has just been called on the one set, and i has
\* an accepted candidate.
C3_Witness ==
  /\ world.same
  /\ last.op = "BaseCase" /\ last.a = last.b
  /\ Valid(neighbors[last.a][0])

\* C4: a BaseCase call that repeats the pair of the BaseCase call before it
\* (not the same point of the same set) returns the same value, evaluates no
\* metric, inserts nothing and leaves every candidate list as it was.
C4_RepeatedBaseCase ==
  [][(/\ last.op = "BaseCase" /\ last'.op = "BaseCase"
      /\ last'.a = last.a /\ last'.b = last.b
      /\ ~(world.same /\ last.a = last.b))
     => (/\ last'.ret = last.ret
         /\ last'.evals = 0 /\ last'.inserts = 0
         /\ distances' = distances /\ neighbors' = neighbors)]_vars

\* C4 witness: a pair whose distance did not qualify for insertion has been
\* evaluated twice in succession (the second call came from the memo).
C4_Witness ==
  /\ last.op = "BaseCase" /\ last.evals = 0
  /\ ~(world.same /\ last.a = last.b)
  /\ \A i \in Slots : neighbors[last.a][i] # last.b
  /\ \A i \in Slots : Valid(neighbors[last.a][i])

\* C5: every BaseCase call returns the metric distance between its two
\* points (0 for the same point of the same set).
C5_BaseCaseReturnsMetric ==
  last.op = "BaseCase" => last.ret = TrueDistance(last.a, last.b)

\* C6: both Rescore overloads return the prune sentinel when oldScore is the
\* prune sentinel, whatever the candidate lists and node bounds hold.
C6_RescoreKeepsPrune ==
  (last.op \in {"RescorePoint", "RescoreNode"} /\ last.old = DBL_MAX)
    => last.ret = DBL_MAX

\* C6 witness: Rescore was handed the sentinel for a query point whose list
\* is full of real candidates.
C6_Witness ==
  /\ last.op = "RescorePoint" /\ last.old = DBL_MAX
  /\ distances[last.a][world.k - 1] # WorstDistance

\* C7: no step makes a node's cached bound, firstBound or secondBound looser
\* (worse under the policy's ordering) than it was.
C7_BoundsOnlyTighten ==
  [][\A n \in Nodes(world) :
       /\ ~IsBetter(stat[n].bound, stat'[n].bound)
       /\ ~IsBetter(stat[n].firstBound, stat'[n].firstBound)
       /\ ~IsBetter(stat[n].secondBound, stat'[n].secondBound)]_vars

\* C7 witness: Score(queryNode, referenceNode) has inserted a candidate and
\* stored a bound on the query node that is better than the bound an earlier
\* call had stored on a node below the same parent, which is not the worst
\* distance either: the bounds have tightened twice.
C7_Witness ==
  /\ last.op = "ScoreNode" /\ last.inserts = 1
  /\ \E m \in Nodes(world) :
       /\ IsBetter(stat[last.a].bound, stat[m].bound)
       /\ IsBetter(stat[m].bound, WorstDistance)

\* C8: an identifier that a ranked insertion shifted out of slot k-1 of a
\* query's list is in no slot of that list afterwards.
C8_DiscardedNeverReappear ==
  \A e \in discarded : \A i \in Slots : neighbors[e[1]][i] # e[2]

\* C9: every list has exactly k entries; real entries (a reference identifier
\* with a distance better than the worst) come first and every slot after
\* them holds the worst distance with the invalid identifier; and with a
\* single reference point and k = 3 an evaluated base case leaves one real
\* entry followed by two such entries.
C9_SentinelsTrail ==
  /\ \A q \in QueryIndices(world) :
       /\ DOMAIN distances[q] = Slots /\ DOMAIN neighbors[q] = Slots
       /\ \E m \in 0..world.k :
            /\ \A i \in 0..(m - 1) :
                 /\ neighbors[q][i] \in ReferenceIndices(world)
                 /\ IsBetter(distances[q][i], WorstDistance)
            /\ \A i \in m..(world.k - 1) :
                 /\ neighbors[q][i] = InvalidId
                 /\ distances[q][i] = WorstDistance
  /\ (Cardinality(ReferenceIndices(world)) = 1 /\ world.k = 3 /\ last.op = "BaseCase")
       => /\ neighbors[last.a] = Arr(<<last.b, InvalidId, InvalidId>>)
          /\ distances[last.a] =
               Arr(<<TrueDistance(last.a, last.b), WorstDistance, WorstDistance>>)

\* C9 witness: the single reference point has been evaluated with k = 3.
C9_Witness ==
  /\ Cardinality(ReferenceIndices(world)) = 1 /\ world.k = 3
  /\ last.op = "BaseCase" /\ last.evals = 1
  /\ neighbors[0][0] = 0 /\ distances[0][1] = WorstDistance

\* C10: InsertNeighbor(q, pos, r, d) with pos in 0..k-1 leaves rows below pos
\* of query q as they were, moves rows pos..k-2 to pos+1..k-1 in both
\* matrices, writes (d, r) at row pos, and leaves every other query's column
\* unchanged.
C10_InsertNeighborShifts ==
  [][last'.op = "InsertNeighbor" =>
       LET q == last'.a
           pos == last'.pos
       IN /\ \A i \in Slots :
               /\ i < pos => /\ distances'[q][i] = distances[q][i]
                             /\ neighbors'[q][i] = neighbors[q][i]
               /\ i > pos => /\ distances'[q][i] = distances[q][i - 1]
                             /\ neighbors'[q][i] = neighbors[q][i - 1]
          /\ distances'[q][pos] = last'.base
          /\ neighbors'[q][pos] = last'.b
          /\ \A o \in QueryIndices(world) \ {q} :
               /\ distances'[o] = distances[o]
               /\ neighbors'[o] = neighbors[o]]_vars

\* C10 witness: an insertion at rank 0 has moved a real entry down a row.
C10_Witness ==
  /\ last.op = "InsertNeighbor" /\ last.pos = 0
  /\ world.k >= 2
  /\ Valid(neighbors[last.a][1])
  /\ neighbors[last.a][1] # last.b

\* C11: an InsertNeighbor call whose rank is outside 0..k-1 ends in an error
\* signalled to the caller.
C11_OutOfRangeIsSignalled ==
  (last.op = "InsertNeighbor" /\ last.pos \notin Slots) => last.error

\* C12: with different query and reference sets BaseCase(i, i) evaluates the
\* metric and ranks the result like any other pair, a coincident reference
\* point enters at rank 0 with distance 0, and in the search of one query
\* point that coincides with reference point 0 and has reference points 1 and
\* 2 at distance 1, k = 2, the list ends as distance 0 for reference point 0
\* and distance 1 for reference point 1 or 2.
C12_DistinctSetsNotElided ==
  /\ (last.op = "BaseCase" /\ ~world.same /\ last.a = last.b) =>
       /\ last.evals = 1
       /\ last.ret = Evaluate(world.querySet[last.a], world.referenceSet[last.b])
       /\ last.pos # NoPosition => /\ distances[last.a][last.pos] = last.ret
                                   /\ neighbors[last.a][last.pos] = last.b
       /\ last.ret = 0 => /\ last.pos = 0
                          /\ distances[last.a][0] = 0
                          /\ neighbors[last.a][0] = last.b
  /\ (world = Coincident /\ drv.done = AllPairs(world)) =>
       /\ distances[0][0] = 0 /\ neighbors[0][0] = 0
       /\ distances[0][1] = 1 /\ neighbors[0][1] \in {1, 2}

\* C12 witness: the search of the coincident query point is complete and its
\* last base case was the pair (0, 0).
C12_Witness ==
  /\ world = Coincident /\ drv.done = AllPairs(world)
  /\ last.op = "BaseCase" /\ last.a = 0 /\ last.b = 0 /\ last.pos = 0

\* C13: with one set as query and reference set BaseCase(i, i) returns 0,
\* evaluates no metric, inserts nothing, and leaves the memo and every
\* candidate list as they were.
C13_SelfMatchChangesNothing ==
  [][(last'.op = "BaseCase" /\ world.same /\ last'.a = last'.b) =>
       /\ last'.ret = 0
       /\ last'.evals = 0
       /\ last'.inserts = 0
       /\ UNCHANGED <<lastQueryIndex, lastReferenceIndex, lastBaseCase,
                      distances, neighbors>>]_vars

\* C13 witness: a self-match call was made while the memo held a pair.
C13_Witness ==
  /\ last.op = "BaseCase" /\ world.same /\ last.a = last.b
  /\ lastQueryIndex \in QueryIndices(world)
  /\ lastReferenceIndex \in ReferenceIndices(world)
  /\ lastBaseCase = TrueDistance(lastQueryIndex, lastReferenceIndex)

\* The bound Score(queryIndex, referenceNode) computes from the base case it
\* used: CombineBest with the node's furthest descendant distance when the
\* first point is the centroid, the distance to the node's bound otherwise.
PointBound ==
  IF world.FirstPointIsCentroid
  THEN CombineBest(last.base, FurthestDescendantDistance(world, last.b))
  ELSE BestPointToNodeDistance(world, world.querySet[last.a], last.b)

\* C14: Score(queryIndex, referenceNode) returns its bound when the bound
\* IsBetter than the distance in slot k-1 of the query's list as the call
\* leaves it, and DBL_MAX otherwise.
C14_ScoreComparesWithWorst ==
  last.op = "ScorePoint" =>
    last.ret = IF IsBetter(PointBound, distances[last.a][world.k - 1])
               THEN PointBound ELSE DBL_MAX

\* C14 witness: the call inserted its own base case into slot k-1 and pruned
\* a bound that beat every distance the list held before.
C14_Witness ==
  /\ last.op = "ScorePoint" /\ last.inserts = 1 /\ last.pos = world.k - 1
  /\ last.ret = DBL_MAX
  /\ IsBetter(PointBound, WorstDistance)

\* C15: on every tree whose first point is the centroid, with or without
\* self-children, the base case of Score(queryIndex, referenceNode) is the
\* parent's cached distance for a self-child and otherwise the distance
\* BaseCase gives for the query point and the node's first point, and the
\* score comes from CombineBest of it and the furthest descendant distance.
C15_CentroidBaseCaseDefined ==
  (last.op = "ScorePoint" /\ world.FirstPointIsCentroid) =>
    LET parent == Parent(world, last.b)
        reuse == /\ world.HasSelfChildren /\ parent # NULL
                 /\ Point(world, last.b, 0) = Point(world, parent, 0)
    IN /\ last.base = IF reuse THEN stat[parent].lastDistance
                      ELSE TrueDistance(last.a, Point(world, last.b, 0))
       /\ last.ret \in {DBL_MAX, CombineBest(last.base,
                                   FurthestDescendantDistance(world, last.b))}

\* C16: in a centroid tree with self-children, Score(queryIndex, node) on a
\* node whose parent holds the same first point evaluates no metric, inserts
\* nothing and takes the parent's lastDistance as base case; and whichever
\* branch is taken, the node's lastDistance is the base case used.
C16_SelfChildReusesParent ==
  (last.op = "ScorePoint" /\ world.FirstPointIsCentroid /\ world.HasSelfChildren) =>
    LET parent == Parent(world, last.b)
        reuse == /\ parent # NULL
                 /\ Point(world, last.b, 0) = Point(world, parent, 0)
    IN /\ stat[last.b].lastDistance = last.base
       /\ reuse => /\ last.evals = 0
                   /\ last.inserts = 0
                   /\ last.base = stat[parent].lastDistance

\* C16 witness: a self-child was scored after its parent had cached a
\* distance that is not zero.
C16_Witness ==
  /\ last.op = "ScorePoint" /\ world.FirstPointIsCentroid /\ world.HasSelfChildren
  /\ Parent(world, last.b) # NULL
  /\ Point(world, last.b, 0) = Point(world, Parent(world, last.b), 0)
  /\ last.base > 0
  /\ last.base = TrueDistance(last.a, Point(world, last.b, 0))

\* C17: after every Score(queryNode, referenceNode) on a centroid tree, with
\* a cached or a fresh base case, the query node's lastDistanceNode is the
\* reference node, the reference node's lastDistanceNode is the query node,
\* and both nodes' lastDistance are the base case the score used.
C17_MutualCache ==
  (last.op = "ScoreNode" /\ world.FirstPointIsCentroid) =>
    /\ stat[last.a].lastDistanceNode = last.b
    /\ stat[last.b].lastDistanceNode = last.a
    /\ stat[last.a].lastDistance = last.base
    /\ stat[last.b].lastDistance = last.base

\* C17 witness: a score that took its base case from a cache, between two
\* different nodes at a distance that is not zero.
C17_Witness ==
  /\ last.op = "ScoreNode" /\ world.FirstPointIsCentroid
  /\ last.cached /\ last.a # last.b /\ last.base > 0
  /\ stat[last.b].lastDistanceNode = last.a

\* The distance between the first points of a node and of the node it was
\* last scored against.
NodeDistance(n, m) ==
  IF world.same \/ n \in world.queryNodes
  THEN TrueDistance(Point(world, n, 0), Point(world, m, 0))
  ELSE TrueDistance(Point(world, m, 0), Point(world, n, 0))

\* C18: in a centroid tree with self-children the base case that
\* Score(queryNode, referenceNode) combines with the furthest descendant
\* distances is the metric distance between the two nodes' first points, and
\* every node with a lastDistanceNode holds the distance between its first
\* point and that node's first point as lastDistance.
C18_DualBaseCaseIsMetric ==
  /\ last.op = "ScoreNode" =>
       last.base = TrueDistance(Point(world, last.a, 0), Point(world, last.b, 0))
  /\ \A n \in Nodes(world) :
       stat[n].lastDistanceNode # NULL =>
         stat[n].lastDistance = NodeDistance(n, stat[n].lastDistanceNode)

\* C19: bound (1) of CalculateBound(queryNode) is the worst of the slot k-1
\* distances of the points the node holds and of the cached bound values of
\* the node's children.
C19_FirstBoundUsesChildBound ==
  last.op = "CalculateBound" =>
    last.b1 = WorstOf({distances[p][world.k - 1] : p \in PointSet(world, last.a)}
                        \cup {stat[c].bound : c \in Children(world, last.a)},
                      BestDistance)

\* The better of two bounds, the first one on a tie being the second.
Best(x, y) == IF IsBetter(x, y) THEN x ELSE y

\* C20: CalculateBound(queryNode) stores firstBound = best(bound (1), bound
\* (4)), secondBound = best(best(bound (3), bound (2)), bound (5)) and bound =
\* best(firstBound, secondBound), bounds (4) and (5) being the parent's
\* firstBound and secondBound, or the worst distance without a parent; it
\* returns the stored bound and changes nothing else: no other node's
\* statistic, no cached distance, no candidate list and no memo slot.
C20_BoundCombination ==
  [][last'.op = "CalculateBound" =>
       LET n == last'.a
           parent == Parent(world, n)
           fourth == IF parent # NULL THEN stat[parent].firstBound ELSE WorstDistance
           fifth == IF parent # NULL THEN stat[parent].secondBound ELSE WorstDistance
       IN /\ stat'[n].firstBound = Best(last'.b1, fourth)
          /\ stat'[n].secondBound = Best(Best(last'.b3, last'.b2), fifth)
          /\ stat'[n].bound = Best(stat'[n].firstBound, stat'[n].secondBound)
          /\ last'.ret = stat'[n].bound
          /\ stat'[n].lastDistance = stat[n].lastDistance
          /\ stat'[n].lastDistanceNode = stat[n].lastDistanceNode
          /\ \A m \in Nodes(world) \ {n} : stat'[m] = stat[m]
          /\ UNCHANGED <<distances, neighbors, lastQueryIndex, lastReferenceIndex,
                         lastBaseCase>>]_vars

\* C20 witness: the parent's second bound was better than everything the node
\* itself had, and became the node's bound.
C20_Witness ==
  /\ last.op = "CalculateBound"
  /\ Parent(world, last.a) # NULL
  /\ IsBetter(stat[Parent(world, last.a)].secondBound, Best(last.b3, last.b2))
  /\ IsBetter(stat[Parent(world, last.a)].secondBound, stat[last.a].firstBound)
  /\ stat[last.a].bound = stat[Parent(world, last.a)].secondBound

\* C21: neither Rescore overload evaluates the metric, calls BaseCase or
\* changes a candidate list or the memo; each returns oldScore unchanged when
\* oldScore is better than the current threshold and the prune sentinel
\* otherwise, the threshold being slot k-1 of the query point's list for the
\* point overload and what CalculateBound(queryNode) gives now for the node
\* overload.
C21_RescoreOnlyCompares ==
  [][last'.op \in {"RescorePoint", "RescoreNode"} =>
       LET threshold == IF last'.op = "RescorePoint"
                        THEN distances[last'.a][world.k - 1]
                        ELSE CalculateBound(world, Cur, last'.a).ret
       IN /\ last'.evals = 0 /\ last'.inserts = 0
          /\ UNCHANGED <<distances, neighbors, lastQueryIndex, lastReferenceIndex,
                         lastBaseCase>>
          /\ last'.ret = IF IsBetter(last'.old, threshold) THEN last'.old ELSE DBL_MAX
          /\ (last'.op = "RescoreNode" /\ last'.old # DBL_MAX)
               => stat'[last'.a].bound = threshold]_vars

\* C21 witness: Rescore(queryNode, ...) was handed a score that is not the
\* sentinel and pruned, because the node's bound as calculated now is no worse
\* than the score although the bound cached before the call was.
C21_Witness ==
  /\ last.op = "RescoreNode"
  /\ last.old # DBL_MAX /\ last.ret = DBL_MAX
  /\ ~IsBetter(last.old, stat[last.a].bound)
  /\ \E q \in PointSet(world, last.a) : Valid(neighbors[q][world.k - 1])

\* What Rescore would return now for a remembered call.
RescoreNow(e) ==
  IF e.op = "RescorePoint"
  THEN RescorePoint(world, Cur, e.a, world.referenceRoot, e.old).ret
  ELSE RescoreNode(world, Cur, e.a, world.referenceRoot, e.old).ret

\* C22: pruning is permanent within one search: once Rescore has returned the
\* prune sentinel for a query point or query node and a score, then after any
\* further BaseCase, Score and Rescore calls Rescore returns the prune sentinel
\* for the same query and score again.
C22_PruningIsPermanent ==
  drv.mode = "prune" => \A e \in drv.pruned : RescoreNow(e) = DBL_MAX

\* C22 witness: a score that is not the sentinel was pruned by each overload,
\* and a BaseCase call has since put a new candidate into the list of the
\* pruned query point.
C22_Witness ==
  /\ drv.mode = "prune"
  /\ last.op = "BaseCase" /\ last.inserts = 1
  /\ \E e \in drv.pruned :
       /\ e.old # DBL_MAX
       /\ \/ e.op = "RescorePoint" /\ e.a = last.a
          \/ e.op = "RescoreNode" /\ last.a \in PointSet(world, e.a)

\* C23: in every reachable state, the cached firstBound of every query node is
\* no better than the current slot k-1 candidate distance of any point held in
\* the node's subtree: stale caches make it looser, never tighter.
C23_FirstBoundCoversDescendants ==
  \A n \in world.queryNodes : \A p \in DescendantPoints(world, n) :
    ~IsBetter(stat[n].firstBound, distances[p][world.k - 1])

\* C23 witness: a node below the root has a calculated firstBound that has
\* gone stale: every point of its subtree now has a candidate distance that
\* is strictly better.
C23_Witness ==
  \E n \in world.queryNodes :
    /\ Parent(world, n) # NULL
    /\ IsBetter(stat[n].firstBound, WorstDistance)
    /\ \A p \in DescendantPoints(world, n) :
         IsBetter(distances[p][world.k - 1], stat[n].firstBound)

\* C24: in every state, which is every point at which the driver may stop,
\* each candidate-list entry with a valid reference identifier r in the list
\* of query q holds the metric distance between query point q and reference
\* point r, and each entry with the invalid identifier holds the worst
\* distance.
C24_EntriesAreConsistent ==
  \A q \in QueryIndices(world) : \A i \in Slots :
    IF Valid(neighbors[q][i])
    THEN /\ neighbors[q][i] \in ReferenceIndices(world)
         /\ distances[q][i] =
              Evaluate(world.querySet[q], world.referenceSet[neighbors[q][i]])
    ELSE distances[q][i] = WorstDistance

\* C24 witness: a call has inserted ahead of an earlier candidate of another
\* reference point, which was shifted down with its distance, while another
\* list still has an empty slot.
C24_Witness ==
  /\ last.inserts = 1 /\ last.pos = 0
  /\ world.k >= 2
  /\ \E q \in QueryIndices(world) :
       /\ Valid(neighbors[q][0]) /\ Valid(neighbors[q][1])
       /\ neighbors[q][0] # neighbors[q][1]
       /\ distances[q][0] # distances[q][1]
  /\ \E q \in QueryIndices(world) : ~Valid(neighbors[q][world.k - 1])

\* C25: on a centroid tree with self-children no Score(queryNode,
\* referenceNode) call, in any order of calls, reads through a NULL
\* lastDistanceNode: when a node is a self-child of a parent whose
\* lastDistanceNode was never set, the parent's cache is not consulted.
C25_NoNullRead ==
  (last.op = "ScoreNode" /\ world.FirstPointIsCentroid /\ world.HasSelfChildren)
    => ~last.nullRead

\* C26: after any sequence of BaseCase calls, repeats of an earlier pair that
\* the memo no longer holds included, no valid reference identifier is in more
\* than one slot of the same query's candidate list.
C26_NoDuplicateCandidates ==
  \A q \in QueryIndices(world) : \A i \in Slots : \A j \in Slots :
    (i # j /\ Valid(neighbors[q][i])) => neighbors[q][i] # neighbors[q][j]

\* C27: for every query point and every slot, no BaseCase, Score or Rescore
\* call makes the distance held in the slot worse under the policy's
\* ordering; the pruning threshold in slot k-1 only tightens.
C27_SlotsOnlyImprove ==
  [][\A q \in QueryIndices(world) : \A j \in Slots :
       ~IsBetter(distances[q][j], distances'[q][j])]_vars

\* C27 witness: a call inside Score or a direct BaseCase call has pushed a
\* real candidate out of the list of its query point, whose slot k-1 went
\* from one real distance to a better one.
C27_Witness ==
  /\ last.inserts = 1
  /\ \E e \in discarded :
       /\ e[1] = last.a \/ last.op = "ScoreNode"
       /\ Valid(neighbors[e[1]][world.k - 1])
       /\ neighbors[e[1]][world.k - 1] # e[2]

\* C28: on a centroid tree with self-children, in any sequence of
\* Score(queryIndex, referenceNode) calls, a call that reuses the cached
\* lastDistance of the node's parent reuses the metric distance between its
\* own query point and the node's first point.
C28_ReusedDistanceIsOwn ==
  (/\ last.op = "ScorePoint"
   /\ world.FirstPointIsCentroid /\ world.HasSelfChildren
   /\ Parent(world, last.b) # NULL
   /\ Point(world, last.b, 0) = Point(world, Parent(world, last.b), 0))
    => last.base = Evaluate(world.querySet[last.a],
                            world.referenceSet[Point(world, last.b, 0)])

\* The BaseCase call that follows Score(queryNode, referenceNode) on the two
\* nodes' first points does no work and returns the base case of the score.
FollowingBaseCaseIsFree ==
  (/\ last.op = "ScoreNode" /\ world.FirstPointIsCentroid
   /\ last'.op = "BaseCase"
   /\ last'.a = Point(world, last.a, 0) /\ last'.b = Point(world, last.b, 0))
    => (last'.evals = 0 /\ last'.inserts = 0 /\ last'.ret = last.base)

\* The list of query point q reflects reference point r: it holds r, or the
\* distance to r does not qualify for it, or r is q itself.
Reflected(lists, ids, q, r) ==
  \/ world.same /\ q = r
  \/ \E i \in Slots : ids[q][i] = r
  \/ ~IsBetter(Evaluate(world.querySet[q], world.referenceSet[r]), lists[q][world.k - 1])

\* C29: on a centroid tree, a BaseCase call on the two nodes' first points
\* that follows Score(queryNode, referenceNode) immediately evaluates no
\* metric, inserts nothing and returns the base case the score used; and when
\* Score took a cached base case, the candidate list of the query node's
\* first point already reflects the reference node's first point.
C29_CachedBaseCaseWasOffered ==
  [][/\ FollowingBaseCaseIsFree
     /\ (last'.op = "ScoreNode" /\ world.FirstPointIsCentroid /\ last'.cached)
          => Reflected(distances', neighbors', Point(world, last'.a, 0),
                       Point(world, last'.b, 0))]_vars

\* C30: on a tree whose first point is not the centroid,
\* Score(queryIndex, referenceNode) changes no candidate list, no memo slot
\* and no node's statistic and evaluates no base case, and
\* Score(queryNode, referenceNode) changes nothing but the query node's
\* firstBound, secondBound and bound.
C30_ScoreReadsOnly ==
  [][(~world.FirstPointIsCentroid /\ last'.op \in {"ScorePoint", "ScoreNode"}) =>
       /\ last'.evals = 0 /\ last'.inserts = 0
       /\ UNCHANGED <<distances, neighbors, lastQueryIndex, lastReferenceIndex,
                      lastBaseCase>>
       /\ last'.op = "ScorePoint" => stat' = stat
       /\ last'.op = "ScoreNode" =>
            /\ \A n \in Nodes(world) \ {last'.a} : stat'[n] = stat[n]
            /\ stat'[last'.a].lastDistance = stat[last'.a].lastDistance
            /\ stat'[last'.a].lastDistanceNode = stat[last'.a].lastDistanceNode]_vars

\* C30 witness: on a binary space tree, Score(queryNode, referenceNode) has
\* kept the pair and given the query node bounds that are not the worst
\* distance, and the node has no cached base case.
C30_Witness ==
  /\ ~world.FirstPointIsCentroid
  /\ last.op = "ScoreNode" /\ last.ret # DBL_MAX
  /\ IsBetter(stat[last.a].firstBound, WorstDistance)
  /\ IsBetter(stat[last.a].secondBound, WorstDistance)
  /\ stat[last.a].lastDistanceNode = NULL

====
